---- MODULE Spec2Model ----
(***************************************************************************)
(* TaskMaster: the task store of taskmaster.py (command-line front end)    *)
(* and taskmaster_gui.py (windowed front end).  Both front ends keep an    *)
(* in-memory list of Task objects and rewrite one JSON file, tasks.json,   *)
(* on every mutation; they share the file format and the file.             *)
(***************************************************************************)
EXTENDS Integers, Sequences, FiniteSets, TLC

VARIABLES
    alive,      \* TRUE when a TaskManager object exists (its constructor returned)
    frontend,   \* which program owns the store: "cli" (taskmaster.py) or "gui"
    tasks,      \* TaskManager.tasks, the in-memory list of Task objects
    file,       \* the content of tasks.json
    last,       \* the last call made on the store and how it ended
    result,     \* the Task objects the last call returned (add_task, list_tasks)
    kth,        \* add_task calls since the store was created empty, -1 once void
    issued,     \* ids of the tasks the store has held since it was created
    fails       \* how many saves have failed so far

vars == <<alive, frontend, tasks, file, last, result, kth, issued, fails>>

---------------------------------------------------------------------------
(* Bounds of the model *)

MaxTasks == 2

\* save failures (unwritable path, full disk) the environment may inject
MaxFails == 2

\* datetime.now().isoformat() values; the wall clock may repeat or step back
Times == {1, 2}

\* the None of completed_at
NULL == 0

Ids == 1..MaxTasks

Frontends == {"cli", "gui"}

---------------------------------------------------------------------------
(* Priority enum *)

Priority == {"LOW", "MEDIUM", "HIGH"}

\* Priority.value
PriorityValue(p) ==
    CASE p = "LOW" -> "low"
      [] p = "MEDIUM" -> "medium"
      [] p = "HIGH" -> "high"

PriorityValues == {PriorityValue(p) : p \in Priority}

\* Priority(value): the member with that value (ValueError when there is none)
PriorityOf(v) == CHOOSE p \in Priority : PriorityValue(p) = v

---------------------------------------------------------------------------
(* Task *)

\* Task.__init__
Task(id, title, priority, now) ==
    [id |-> id, title |-> title, priority |-> priority, completed |-> FALSE,
     created_at |-> now, completed_at |-> NULL]

to_dict_drops_completed_at(t) ==
    [id |-> t.id, title |-> t.title, priority |-> PriorityValue(t.priority),
     completed |-> t.completed, created_at |-> t.created_at,
     completed_at |-> NULL]

\* Task.to_dict
to_dict(t) ==
    [id |-> t.id, title |-> t.title, priority |-> PriorityValue(t.priority),
     completed |-> t.completed, created_at |-> t.created_at,
     completed_at |-> t.completed_at]

TaskFields == {"id", "title", "priority", "completed", "created_at", "completed_at"}

\* Task.from_dict raises KeyError on a missing key, ValueError on an unknown
\* priority string
from_dict_raises(d) ==
    \/ ~(TaskFields \subseteq DOMAIN d)
    \/ d.priority \notin PriorityValues

\* Task.from_dict; `now` is the created_at the constructor stamps before it is
\* overwritten from the record
from_dict(d, now) ==
    [Task(d.id, d.title, PriorityOf(d.priority), now) EXCEPT
        !.completed = d.completed,
        !.created_at = d.created_at,
        !.completed_at = d.completed_at]

---------------------------------------------------------------------------
(* The backing file *)

AbsentFile == [kind |-> "absent", recs |-> <<>>]

\* text that json.load rejects: an empty or truncated file, or garbage
MalformedFile == [kind |-> "malformed", recs |-> <<>>]

ArrayFile(recs) == [kind |-> "array", recs |-> recs]

\* json.dump([task.to_dict() for task in self.tasks], f, indent=2)
json_dump(ts) == ArrayFile([i \in 1..Len(ts) |-> to_dict(ts[i])])

SaveOutcomes == {"ok", "openfail", "writefail"}

\* the failure budget: a save can fail only while fewer than MaxFails have
MayEnd(outcome, n) == outcome = "ok" \/ n < MaxFails

Failed(outcome, n) == IF outcome = "ok" THEN n ELSE n + 1

save_tasks_keeps_old(ts, f, outcome) ==
    CASE outcome = "ok" -> f
      [] outcome = "openfail" -> f
      [] outcome = "writefail" -> MalformedFile

\* TaskManager.save_tasks: the file it leaves.  open(..., 'w') may fail and
\* leave the file alone; once opened the file is truncated, and a failing
\* write leaves a prefix of the JSON text
save_tasks(ts, f, outcome) ==
    CASE outcome = "ok" -> json_dump(ts)
      [] outcome = "openfail" -> f
      [] outcome = "writefail" -> MalformedFile

\* TaskManager.load_tasks: whether it raises, and the task list it leaves.
\* `vanish`: the file is removed between os.path.exists and open;
\* `now`: the time the clock shows while the records are read
load_tasks(fe, f, vanish, now) ==
    IF f.kind = "absent" THEN [raised |-> FALSE, tasks |-> <<>>]
    ELSE IF vanish THEN
        \* FileNotFoundError: caught by the gui, outside the try of the cli
        [raised |-> (fe = "cli"), tasks |-> <<>>]
    ELSE IF f.kind = "malformed" THEN [raised |-> FALSE, tasks |-> <<>>]
    ELSE IF \E i \in 1..Len(f.recs) : from_dict_raises(f.recs[i]) THEN
        [raised |-> TRUE, tasks |-> <<>>]
    ELSE [raised |-> FALSE,
          tasks |-> [i \in 1..Len(f.recs) |-> from_dict(f.recs[i], now)]]

---------------------------------------------------------------------------
(* Helpers of the operations *)

new_id_skips(ts) == Len(ts) + 2

\* add_task: task_id = len(self.tasks) + 1
new_id(ts) == Len(ts) + 1

\* the index the loop of complete_task stops at, 0 when it runs to the end
find_incomplete(ts, id) ==
    LET hits == {i \in 1..Len(ts) : ts[i].id = id /\ ~ts[i].completed}
    IN IF hits = {} THEN 0 ELSE CHOOSE i \in hits : \A j \in hits : i <= j

\* the index the loops of toggle_task and delete_task stop at, 0 when none
find_id(ts, id) ==
    LET hits == {i \in 1..Len(ts) : ts[i].id = id}
    IN IF hits = {} THEN 0 ELSE CHOOSE i \in hits : \A j \in hits : i <= j

completed_without_stamp(t, now) == [t EXCEPT !.completed = TRUE]

\* complete_task: task.completed = True; task.completed_at = now
completed_task(t, now) == [t EXCEPT !.completed = TRUE, !.completed_at = now]

toggled_keeps_stamp(t, now) ==
    [t EXCEPT !.completed = ~t.completed,
              !.completed_at = IF ~t.completed THEN now ELSE t.completed_at]

\* toggle_task: task.completed = not task.completed;
\*              task.completed_at = now if task.completed else None
toggled_task(t, now) ==
    [t EXCEPT !.completed = ~t.completed,
              !.completed_at = IF ~t.completed THEN now ELSE NULL]

\* del self.tasks[i]
remove_at(ts, i) == [k \in 1..(Len(ts) - 1) |-> IF k < i THEN ts[k] ELSE ts[k + 1]]

list_tasks_ignores_flag(ts, show_completed) == ts

\* TaskManager.list_tasks
list_tasks(ts, show_completed) ==
    IF show_completed THEN ts ELSE SelectSeq(ts, LAMBDA t : ~t.completed)

\* The record of a call: the operation, its id argument, how it ended ("true",
\* "false", "task", "list", "ok", or "raise"), what its save did, the index of
\* the task it touched (0: none), whether that task was completed before the
\* call, and whether the call before it was the same call and returned true
Call(prev, op, id, ret, saved, hit, was) ==
    [op |-> op, id |-> id, ret |-> ret, saved |-> saved, hit |-> hit, was |-> was,
     again |-> (prev.op = op /\ prev.id = id /\ prev.ret = "true")]

NoCall == [op |-> "none", id |-> 0, ret |-> "none"]

---------------------------------------------------------------------------
(* State *)

\* the files a first run can find: none, or an empty (zero-byte) one
PristineFiles == {AbsentFile, MalformedFile}

GoodRecord == to_dict(completed_task(Task(1, "a", "HIGH", 1), 2))

\* hand-written records: without a title, with an unknown priority string
NoTitleRecord == [id |-> 1, priority |-> "low", completed |-> FALSE,
                  created_at |-> 1, completed_at |-> NULL]

UrgentRecord == [to_dict(Task(1, "b", "LOW", 1)) EXCEPT !.priority = "urgent"]

\* the files any run can find
AnyFiles ==
    PristineFiles \cup {ArrayFile(<<>>), ArrayFile(<<GoodRecord>>),
                        ArrayFile(<<NoTitleRecord>>), ArrayFile(<<UrgentRecord>>),
                        ArrayFile(<<GoodRecord, UrgentRecord>>)}

\* TaskManager.__init__ on file f: self.tasks = []; self.load_tasks()
Constructed(fe, f) ==
    LET r == load_tasks(fe, f, FALSE, 1) IN
    /\ alive = ~r.raised
    /\ frontend = fe
    /\ tasks = r.tasks
    /\ file = f
    /\ last = Call(NoCall, "init", 0, IF r.raised THEN "raise" ELSE "ok", "none", 0, FALSE)
    /\ result = <<>>
    /\ kth = IF ~r.raised /\ r.tasks = <<>> THEN 0 ELSE -1
    /\ issued = {r.tasks[i].id : i \in 1..Len(r.tasks)}
    /\ fails = 0

Init == \E fe \in Frontends, f \in PristineFiles : Constructed(fe, f)

InitAnyFile == \E fe \in Frontends, f \in AnyFiles : Constructed(fe, f)

---------------------------------------------------------------------------
(* Operations *)

\* A front end starts: TaskManager.__init__ builds a new store from the file
Initialize(fe, vanish, now) ==
    LET r == load_tasks(fe, file, vanish, now) IN
    /\ vanish => file.kind # "absent"
    /\ alive' = ~r.raised
    /\ frontend' = fe
    /\ tasks' = r.tasks
    /\ file' = IF vanish THEN AbsentFile ELSE file
    /\ last' = Call(last, "init", 0, IF r.raised THEN "raise" ELSE "ok", "none", 0, FALSE)
    /\ result' = <<>>
    /\ kth' = IF ~r.raised /\ r.tasks = <<>> THEN 0 ELSE -1
    /\ issued' = {r.tasks[i].id : i \in 1..Len(r.tasks)}
    /\ UNCHANGED fails

\* TaskManager.add_task
Add(title, priority, now, outcome) ==
    LET task == Task(new_id(tasks), title, priority, now) IN
    /\ alive
    /\ Len(tasks) < MaxTasks
    /\ MayEnd(outcome, fails)
    /\ fails' = Failed(outcome, fails)
    /\ tasks' = Append(tasks, task)
    /\ file' = save_tasks(tasks', file, outcome)
    /\ last' = Call(last, "add", 0, IF outcome = "ok" THEN "task" ELSE "raise",
                    outcome, Len(tasks) + 1, FALSE)
    /\ result' = IF outcome = "ok" THEN <<task>> ELSE <<>>
    /\ kth' = IF kth >= 0 THEN kth + 1 ELSE -1
    /\ issued' = issued \cup {task.id}
    /\ UNCHANGED <<alive, frontend>>

\* TaskManager.complete_task (taskmaster.py only)
Complete(id, outcomes) ==
    LET hit == find_incomplete(tasks, id) IN
    /\ alive
    /\ frontend = "cli"
    /\ IF hit = 0
       THEN /\ last' = Call(last, "complete", id, "false", "none", 0, FALSE)
            /\ UNCHANGED <<tasks, file, fails>>
       ELSE \E now \in Times, outcome \in outcomes :
            /\ MayEnd(outcome, fails)
            /\ fails' = Failed(outcome, fails)
            /\ tasks' = [tasks EXCEPT ![hit] = completed_task(tasks[hit], now)]
            /\ file' = save_tasks(tasks', file, outcome)
            /\ last' = Call(last, "complete", id, IF outcome = "ok" THEN "true" ELSE "raise",
                            outcome, hit, tasks[hit].completed)
    /\ result' = <<>>
    /\ UNCHANGED <<alive, frontend, kth, issued>>

\* TaskManager.toggle_task (taskmaster_gui.py only)
Toggle(id, outcomes) ==
    LET hit == find_id(tasks, id) IN
    /\ alive
    /\ frontend = "gui"
    /\ IF hit = 0
       THEN /\ last' = Call(last, "toggle", id, "false", "none", 0, FALSE)
            /\ UNCHANGED <<tasks, file, fails>>
       ELSE \E now \in Times, outcome \in outcomes :
            /\ MayEnd(outcome, fails)
            /\ fails' = Failed(outcome, fails)
            /\ tasks' = [tasks EXCEPT ![hit] = toggled_task(tasks[hit], now)]
            /\ file' = save_tasks(tasks', file, outcome)
            /\ last' = Call(last, "toggle", id, IF outcome = "ok" THEN "true" ELSE "raise",
                            outcome, hit, tasks[hit].completed)
    /\ result' = <<>>
    /\ UNCHANGED <<alive, frontend, kth, issued>>

\* TaskManager.delete_task
Delete(id, outcomes) ==
    LET hit == find_id(tasks, id) IN
    /\ alive
    /\ IF hit = 0
       THEN /\ last' = Call(last, "delete", id, "false", "none", 0, FALSE)
            /\ UNCHANGED <<tasks, file, fails>>
       ELSE \E outcome \in outcomes :
            /\ MayEnd(outcome, fails)
            /\ fails' = Failed(outcome, fails)
            /\ tasks' = remove_at(tasks, hit)
            /\ file' = save_tasks(tasks', file, outcome)
            /\ last' = Call(last, "delete", id, IF outcome = "ok" THEN "true" ELSE "raise",
                            outcome, hit, tasks[hit].completed)
    /\ result' = <<>>
    /\ kth' = -1
    /\ UNCHANGED <<alive, frontend, issued>>

\* TaskManager.list_tasks (taskmaster.py only)
List(show_completed) ==
    /\ alive
    /\ frontend = "cli"
    /\ result' = list_tasks(tasks, show_completed)
    /\ last' = Call(last, "list", IF show_completed THEN 1 ELSE 0, "list", "none", 0, FALSE)
    /\ UNCHANGED <<alive, frontend, tasks, file, kth, issued, fails>>

\* add_task inputs: title, priority, and the time the clock shows
NewTaskInputs ==
    {<<"a", "LOW", 1>>, <<"b", "MEDIUM", 2>>, <<"a", "HIGH", 2>>}

\* the add_task input of the runs with failing saves
FaultyRunInputs == {<<"a", "MEDIUM", 1>>}

\* one call on the store, or a front end starting
Step(inputs, outcomes) ==
    \/ \E fe \in Frontends, vanish \in BOOLEAN, now \in Times :
          Initialize(fe, vanish, now)
    \/ \E in \in inputs, outcome \in outcomes : Add(in[1], in[2], in[3], outcome)
    \/ \E id \in Ids : Complete(id, outcomes)
    \/ \E id \in Ids : Toggle(id, outcomes)
    \/ \E id \in Ids : Delete(id, outcomes)
    \/ \E show_completed \in BOOLEAN : List(show_completed)

\* every save succeeds
Next == Step(NewTaskInputs, {"ok"})

\* a save may fail, at most MaxFails times
NextFaulty == Step(FaultyRunInputs, SaveOutcomes)

\* runs that start with no usable tasks.json, on a disk that works
Spec == Init /\ [][Next]_vars

\* runs that start with any tasks.json
SpecAnyFile == InitAnyFile /\ [][Next]_vars

\* runs in which saves may fail
SpecFaulty == Init /\ [][NextFaulty]_vars

---------------------------------------------------------------------------
(* Properties *)

Mutating == {"add", "complete", "toggle", "delete"}

SaveFailures == {"openfail", "writefail"}

IdsOf(ts) == {ts[i].id : i \in 1..Len(ts)}

UniqueIds(ts) == \A i, j \in 1..Len(ts) : i # j => ts[i].id # ts[j].id

Stamped(t) == (t.completed_at # NULL) <=> t.completed

\* C1: no two tasks of the store have the same id, and add_task never hands
\* out an id that a task of the store has had, even after that task was deleted
C1_IdsUniqueNeverReused ==
    [][/\ UniqueIds(tasks')
       /\ last'.op = "add" => tasks'[Len(tasks')].id \notin issued]_vars

\* C2: a Delete(id) that directly follows a Delete(id) that returned true
\* returns false
C2_DeleteTwice ==
    (last.op = "delete" /\ last.again) => last.ret = "false"

\* C3: the constructor never raises, and leaves the store empty when the file
\* is not a readable array of valid task records
C3_InitializeNeverRaises ==
    last.op = "init" =>
        /\ last.ret = "ok"
        /\ alive
        /\ (\/ file.kind # "array"
            \/ \E i \in 1..Len(file.recs) : from_dict_raises(file.recs[i]))
           => tasks = <<>>

\* C4: Complete(id) on an id that a completed task has, or that no task has,
\* returns false, changes no task and does not write the file
C4_CompleteAgainIsNoOp ==
    [][(/\ last'.op = "complete"
        /\ \/ \E i \in 1..Len(tasks) : tasks[i].id = last'.id /\ tasks[i].completed
           \/ last'.id \notin IdsOf(tasks))
       => (last'.ret = "false" /\ last'.saved = "none"
           /\ tasks' = tasks /\ file' = file)]_vars

\* C5: every task in memory, and every record of the file as last written,
\* has completed_at set exactly when completed is true
C5_StampedIffCompleted ==
    /\ \A i \in 1..Len(tasks) : Stamped(tasks[i])
    /\ \A i \in 1..Len(file.recs) : Stamped(file.recs[i])

C5_Witness ==
    /\ last.op = "toggle" /\ last.was /\ last.ret = "true"
    /\ \E i \in 1..Len(tasks) : tasks[i].completed /\ tasks[i].completed_at # NULL
    /\ \E i \in 1..Len(file.recs) :
          ~file.recs[i].completed /\ file.recs[i].completed_at = NULL

\* C6: after a mutating call that returned, the file is the dump of the
\* in-memory list, and either front end, started on that file, loads the same
\* tasks in the same order, field by field
C6_RoundTrip ==
    (last.op \in Mutating /\ last.ret \in {"task", "true"}) =>
        /\ file = json_dump(tasks)
        /\ \A fe \in Frontends, now \in Times :
              LET r == load_tasks(fe, file, FALSE, now) IN
              /\ ~r.raised
              /\ Len(r.tasks) = Len(tasks)
              /\ \A i \in 1..Len(tasks) : \A k \in TaskFields :
                    r.tasks[i][k] = tasks[i][k]

C6_Witness ==
    /\ last.op = "delete" /\ last.ret = "true"
    /\ Len(tasks) >= 1
    /\ tasks[1].completed /\ tasks[1].priority = "HIGH" /\ tasks[1].created_at = 2

\* C7: in a store that started empty and has seen no Delete, the k-th Add
\* appends and returns a task with id k
C7_KthAddGetsIdK ==
    (last.op = "add" /\ kth >= 1) =>
        /\ tasks[Len(tasks)].id = kth
        /\ Len(result) = 1
        /\ result[1].id = kth

C7_Witness ==
    /\ last.op = "add" /\ kth = 2
    /\ tasks[1].completed
    /\ tasks[1].title # tasks[2].title
    /\ tasks[1].priority # tasks[2].priority

\* C8: a Toggle that finds its task returns true and changes no other task;
\* a second Toggle(id) directly after it finds the same task, returns true and
\* leaves it with its original completed value and its other fields, with
\* completed_at null when it started incomplete
C8_ToggleTwice ==
    [][/\ (last'.op = "toggle" /\ last'.hit > 0) =>
            /\ last'.ret = "true"
            /\ Len(tasks') = Len(tasks)
            /\ \A i \in 1..Len(tasks) : i # last'.hit => tasks'[i] = tasks[i]
       /\ (last.op = "toggle" /\ last.hit > 0 /\ last'.op = "toggle"
           /\ last'.id = last.id) =>
            /\ last.ret = "true"
            /\ last'.hit = last.hit
            /\ tasks'[last.hit].completed = last.was
            /\ ~last.was => tasks'[last.hit].completed_at = NULL
            /\ \A k \in {"id", "title", "priority", "created_at"} :
                  tasks'[last.hit][k] = tasks[last.hit][k]]_vars

C8_Witness ==
    /\ last.op = "toggle" /\ last.again /\ last.ret = "true"
    /\ last.was
    /\ Len(tasks) = 2
    /\ ~tasks[last.hit].completed /\ tasks[last.hit].completed_at = NULL

\* the index of the k-th task of ts that is not completed
KthIncomplete(ts, k) ==
    CHOOSE i \in 1..Len(ts) :
        /\ ~ts[i].completed
        /\ Cardinality({j \in 1..i : ~ts[j].completed}) = k

\* what List(show_completed) is to return from the store ts
Listed(ts, r, show_completed) ==
    IF show_completed THEN r = ts
    ELSE /\ Len(r) = Cardinality({i \in 1..Len(ts) : ~ts[i].completed})
         /\ \A k \in 1..Len(r) : r[k] = ts[KthIncomplete(ts, k)]

\* C9: List(true) returns all tasks and List(false) the tasks that are not
\* completed, in the order of the store, which is the order of the Add calls:
\* Add puts the new task last and Delete closes the gap
C9_ListInInsertionOrder ==
    [][/\ last'.op = "list" =>
            /\ tasks' = tasks
            /\ last'.ret = "list"
            /\ Listed(tasks, result', last'.id = 1)
       /\ last'.op = "add" => SubSeq(tasks', 1, Len(tasks)) = tasks
       /\ (last'.op = "delete" /\ last'.hit > 0) =>
            /\ Len(tasks') = Len(tasks) - 1
            /\ \A k \in 1..Len(tasks') :
                  tasks'[k] = tasks[IF k < last'.hit THEN k ELSE k + 1]
       /\ last'.op \in {"complete", "toggle"} =>
            /\ Len(tasks') = Len(tasks)
            /\ \A k \in 1..Len(tasks) : tasks'[k].id = tasks[k].id]_vars

C9_Witness ==
    /\ last.op = "list" /\ last.id = 0
    /\ Len(tasks) = 2 /\ tasks[1].completed
    /\ result = <<tasks[2]>>

\* C10 as claimed: a failed save raises, and from then until a save succeeds
\* the file is not the dump of the in-memory list; after a save that succeeds
\* it is
C10_DifferUntilNextSave ==
    /\ last.saved \in SaveFailures => (last.ret = "raise" /\ file # json_dump(tasks))
    /\ last.saved = "ok" => file = json_dump(tasks)

\* the change a mutating call makes in memory
Applied(call, before, after) ==
    CASE call.op = "add" ->
            Len(after) = Len(before) + 1 /\ SubSeq(after, 1, Len(before)) = before
      [] call.op = "complete" ->
            ~before[call.hit].completed /\ after[call.hit].completed
      [] call.op = "toggle" ->
            after[call.hit].completed = ~before[call.hit].completed
      [] call.op = "delete" ->
            Len(after) = Len(before) - 1 /\ before[call.hit].id = call.id

\* C10 amended: a failed save raises and the change is made in memory all the
\* same; the file then differs from memory if it held the in-memory list before
\* the call; and after a save that succeeds the file is again the dump of the
\* in-memory list
C10_FailedSaveDiverges ==
    [][/\ last'.saved \in SaveFailures =>
            /\ last'.ret = "raise"
            /\ Applied(last', tasks, tasks')
            /\ file = json_dump(tasks) => file' # json_dump(tasks')
       /\ last'.saved = "ok" =>
            /\ last'.ret \in {"task", "true"}
            /\ file' = json_dump(tasks')]_vars

C10_Witness ==
    /\ last.saved = "ok" /\ last.op = "delete"
    /\ fails = 2
    /\ Len(tasks) = 1 /\ tasks[1].completed
    /\ file = json_dump(tasks)

====
